---- MODULE Spec2Model ----
(***************************************************************************)
(* Model of Berserk's NNUE evaluation core (src/src/nn.c): the weight      *)
(* loader, the full accumulator refresh, the incremental accumulator       *)
(* update, the three output-layer kernels and Predict.                     *)
(*                                                                         *)
(* Numbers keep the widths of the C code.  int16_t lanes wrap modulo 2^16  *)
(* (the implementation-defined narrowing of gcc and clang), the SIMD       *)
(* 32-bit lanes wrap modulo 2^32 (defined by the intrinsics), and signed   *)
(* overflow of a C int, as well as an out-of-range float to integer        *)
(* conversion, is undefined behaviour: its outcome is a choice the build   *)
(* makes (ub), never a fixed value.                                        *)
(*                                                                         *)
(* A float of the embedded resource is the rational num / FloatDen.        *)
(***************************************************************************)
EXTENDS Integers, Sequences, FiniteSets, TLC

\* ------------------------------------------------------------- bounds
\* hidden width in units of the widest (AVX2) register: N_HIDDEN = 16 * HiddenChunks
HiddenChunks == 1
\* squares of the (one-file) model board
NSquares == 5
\* deepest ply of the search stack (the accumulators' second dimension)
MaxPly == 2

\* ---------------------------------------------------- program constants
WHITE == 0
BLACK == 1
PAWN == <<0, 1>>
KING == <<2, 3>>
NO_PIECE == 4
QUANTIZATION_PRECISION_IN == 32
QUANTIZATION_PRECISION_OUT == 512
WIDTH_AVX2 == 16
WIDTH_SSE == 8
INT16_MAX == 32767
INT32_MAX == 2147483647
INT16_MIN == -INT16_MAX - 1
INT32_MIN == -INT32_MAX - 1
FloatDen == 2048

N_HIDDEN == WIDTH_AVX2 * HiddenChunks
Squares == 0 .. (NSquares - 1)
Colors == {WHITE, BLACK}
Pieces == {PAWN[WHITE + 1], PAWN[BLACK + 1], KING[WHITE + 1], KING[BLACK + 1]}
N_FEATURES == 2 * Cardinality(Pieces) * NSquares
Lanes == 0 .. (N_HIDDEN - 1)
Features == 0 .. (N_FEATURES - 1)

\* ------------------------------------------------------- C arithmetic
\* the implementation-defined conversion of an int to int16_t
Wrap16(x) == ((x - INT16_MIN) % (2 * (INT16_MAX + 1))) + INT16_MIN

\* a + b leaves the range of a 32-bit int
AddOverflows32(a, b) ==
  \/ b > 0 /\ a > INT32_MAX - b
  \/ b < 0 /\ a < INT32_MIN - b

\* a + b modulo 2^32, as a signed 32-bit value
WrapAdd32(a, b) ==
  IF b > 0 /\ a > INT32_MAX - b THEN (a - INT32_MAX - 1) + (b - INT32_MAX - 1)
  ELSE IF b < 0 /\ a < INT32_MIN - b THEN (a + INT32_MAX + 1) + (b + INT32_MAX + 1)
  ELSE a + b

\* a * k leaves the range of a 32-bit int (k > 0)
MulOverflows32(a, k) ==
  \/ a > INT32_MAX \div k
  \/ a < 0 /\ (-(a + 1)) > (INT32_MAX - k + 1) \div k

\* a * k modulo 2^32, as a signed 32-bit value, for k a power of two: the
\* low bits of a, shifted
WrapMul32(a, k) ==
  LET half == (INT32_MAX \div k) + 1
      low == a % (2 * half)
  IN IF low >= half THEN (low - 2 * half) * k ELSE low * k

\* C's integer division, which truncates toward zero (b > 0)
TruncDiv(a, b) == IF a >= 0 \/ a % b = 0 THEN a \div b ELSE (a \div b) + 1

\* max(a, 0)
Relu(a) == IF a > 0 THEN a ELSE 0

\* C's round(): to the nearest integer, halves away from zero; of num / den
Round(num, den) ==
  IF num >= 0 THEN (2 * num + den) \div (2 * den)
  ELSE -((2 * (-num) + den) \div (2 * den))

VARIABLES
  Embed,            \* the embedded resource (EmbedData), fixed at build time
  ub,               \* how this build resolves undefined behaviour
  arch,             \* which OutputLayer this build compiled
  DEFAULT_NN_HASH,  \* the 8 hash bytes, little endian
  FEATURE_WEIGHTS, HIDDEN_BIASES, HIDDEN_WEIGHTS, OUTPUT_BIAS,
  loaded,           \* LoadDefaultNN has returned
  diagnostics,      \* lines printed by LoadDefaultNN
  boards,           \* each worker's Board
  undo,             \* each worker's stack of squares to restore on unmake
  trace,            \* each worker's record of its last operation (ghost)
  stmIn, xstmIn,    \* the accumulators handed to the OutputLayer kernels
  outs              \* what each OutputLayer kernel returned

store == <<DEFAULT_NN_HASH, FEATURE_WEIGHTS, HIDDEN_BIASES, HIDDEN_WEIGHTS, OUTPUT_BIAS>>
vars == <<Embed, ub, arch, DEFAULT_NN_HASH, FEATURE_WEIGHTS, HIDDEN_BIASES,
          HIDDEN_WEIGHTS, OUTPUT_BIAS, loaded, diagnostics, boards, undo, trace,
          stmIn, xstmIn, outs>>

UBModes == {"wrap", "trap"}
Archs == {"avx2", "sse", "scalar"}

\* ------------------------------------------------------- OutputLayer
\* the value an int computation returns: under a trapping build a signed
\* overflow aborts the call
IntResult(value, ovf, mode) ==
  IF ovf /\ mode = "trap" THEN [trap |-> TRUE, value |-> 0]
  ELSE [trap |-> FALSE, value |-> value]

\* _mm_madd_epi16 on one pair of lanes: two 16x16 products added in 32 bits
Madd16(a0, b0, a1, b1) == WrapAdd32(a0 * b0, a1 * b1)

RECURSIVE SimdDot(_, _, _, _, _)
\* the loop of a SIMD kernel for one accumulator: sums[k] accumulates lanes
\* 2k and 2k+1 of every chunk, chunks j .. chunks-1 still to come
SimdDot(acc, woff, width, j, sums) ==
  IF j = N_HIDDEN \div width THEN sums
  ELSE SimdDot(acc, woff, width, j + 1,
         [k \in DOMAIN sums |->
            WrapAdd32(sums[k],
              Madd16(Relu(acc[j * width + 2 * k]),
                     HIDDEN_WEIGHTS[j * width + 2 * k + woff],
                     Relu(acc[j * width + 2 * k + 1]),
                     HIDDEN_WEIGHTS[j * width + 2 * k + 1 + woff]))])

\* r4 -> r2 -> r1 -> _mm_cvtsi128_si32: the horizontal sum of four lanes
Reduce4(r4) ==
  LET r2 == [k \in 0 .. 1 |-> WrapAdd32(r4[k], r4[k + 2])]
  IN WrapAdd32(r2[0], r2[1])

OutputLayerAVX2(stm, xstm, mode) ==
  LET bias == WrapMul32(OUTPUT_BIAS, QUANTIZATION_PRECISION_IN)
      zero == [k \in 0 .. (WIDTH_AVX2 \div 2 - 1) |-> 0]
      s0 == SimdDot(stm, 0, WIDTH_AVX2, 0, zero)
      s1 == SimdDot(xstm, N_HIDDEN, WIDTH_AVX2, 0, zero)
      r8 == [k \in DOMAIN zero |-> WrapAdd32(s0[k], s1[k])]
      r4 == [k \in 0 .. 3 |-> WrapAdd32(r8[k], r8[k + 4])]
      r1 == Reduce4(r4)
      ovf == MulOverflows32(OUTPUT_BIAS, QUANTIZATION_PRECISION_IN)
               \/ AddOverflows32(bias, r1)
      result == WrapAdd32(bias, r1)
  IN IntResult(TruncDiv(TruncDiv(result, QUANTIZATION_PRECISION_IN),
                        QUANTIZATION_PRECISION_OUT), ovf, mode)

OutputLayerSSE(stm, xstm, mode) ==
  LET bias == WrapMul32(OUTPUT_BIAS, QUANTIZATION_PRECISION_IN)
      zero == [k \in 0 .. (WIDTH_SSE \div 2 - 1) |-> 0]
      s0 == SimdDot(stm, 0, WIDTH_SSE, 0, zero)
      s1 == SimdDot(xstm, N_HIDDEN, WIDTH_SSE, 0, zero)
      r4 == [k \in DOMAIN zero |-> WrapAdd32(s0[k], s1[k])]
      r1 == Reduce4(r4)
      ovf == MulOverflows32(OUTPUT_BIAS, QUANTIZATION_PRECISION_IN)
               \/ AddOverflows32(bias, r1)
      result == WrapAdd32(bias, r1)
  IN IntResult(TruncDiv(TruncDiv(result, QUANTIZATION_PRECISION_IN),
                        QUANTIZATION_PRECISION_OUT), ovf, mode)

\* the scalar kernel's loop: run[n] is the running int after lanes 0 .. n-1,
\* and whether a signed overflow has occurred so far
ScalarLoop(stm, xstm) ==
  LET run[n \in 0 .. N_HIDDEN] ==
        IF n = 0
        THEN [value |-> WrapMul32(OUTPUT_BIAS, QUANTIZATION_PRECISION_IN),
              ovf |-> MulOverflows32(OUTPUT_BIAS, QUANTIZATION_PRECISION_IN)]
        ELSE LET r == run[n - 1]
                 i == n - 1
                 t0 == Relu(stm[i]) * HIDDEN_WEIGHTS[i]
                 v0 == WrapAdd32(r.value, t0)
                 t1 == Relu(xstm[i]) * HIDDEN_WEIGHTS[i + N_HIDDEN]
                 v1 == WrapAdd32(v0, t1)
             IN IF r.ovf THEN [value |-> v1, ovf |-> TRUE]
                ELSE [value |-> v1,
                      ovf |-> AddOverflows32(r.value, t0) \/ AddOverflows32(v0, t1)]
  IN run

\* the running int when the loop is left
ScalarTotal(stm, xstm) == ScalarLoop(stm, xstm)[N_HIDDEN]

OutputLayerScalar(stm, xstm, mode) ==
  LET r == ScalarTotal(stm, xstm)
  IN IntResult(TruncDiv(TruncDiv(r.value, QUANTIZATION_PRECISION_IN),
                        QUANTIZATION_PRECISION_OUT), r.ovf, mode)

\* the OutputLayer this build compiled (#if __AVX2__ / #elif __SSE__ / #else)
OutputLayer(stm, xstm) ==
  CASE arch = "avx2" -> OutputLayerAVX2(stm, xstm, ub)
    [] arch = "sse" -> OutputLayerSSE(stm, xstm, ub)
    [] OTHER -> OutputLayerScalar(stm, xstm, ub)

\* ------------------------------------------------------------ Loader
MAGIC == <<66, 82, 75, 82>>
NO_HASH == <<255, 255, 255, 255, 255, 255, 255, 255>>

\* float numerators (over FloatDen) the model's resources are made of
FwSmall == <<64, -128, 96, -96, 31, 192, -33>>
FwBig == <<576000, -320000, 2097088, -2097152, 128, 640000, -576032>>
FwEdge == <<32, -32, 2097120, 2097119, -2097184, -2097183, 80>>
HwSmall == <<16, -32, 50, 1, -18>>
HwBig == <<131056, -131072, 128000, -128000, 131066>>
HwEdge == <<131070, -131074, 6, 262144, -131073>>

FloatTable(name) ==
  CASE name = "FwSmall" -> FwSmall
    [] name = "FwBig" -> FwBig
    [] name = "FwEdge" -> FwEdge
    [] name = "HwSmall" -> HwSmall
    [] name = "HwBig" -> HwBig
    [] OTHER -> HwEdge

\* offsets, in floats, of the sections that follow the magic and the hash
OffHiddenBiases == N_FEATURES * N_HIDDEN
OffHiddenWeights == OffHiddenBiases + N_HIDDEN
OffOutputBias == OffHiddenWeights + 2 * N_HIDDEN

\* ((float*) EmbedData + 3)[k]: the k-th float of resource e, as a numerator
EmbedFloat(e, k) ==
  LET t == FloatTable(IF k < OffHiddenWeights THEN e.fw ELSE e.hw)
  IN t[((k + e.shift) % Len(t)) + 1]

\* the ways a build resolves a float to integer conversion whose value the
\* target type cannot hold: the low bits (x86 cvttsd2si, then truncation) or
\* the nearest bound (a saturating conversion, a folded constant)
ConvModes == {"wrap", "sat"}

\* v * precision, rounded: the double that LoadWeight converts
Scaled(v, precision) == Round(v * precision, FloatDen)

\* faulty LoadWeight: the product is converted without round()
LoadWeightTruncates(v, precision, conv) ==
  LET r == TruncDiv(v * precision, FloatDen)
  IN IF r >= INT16_MIN /\ r <= INT16_MAX THEN r
     ELSE IF conv = "wrap" THEN Wrap16(r)
     ELSE IF r > 0 THEN INT16_MAX ELSE INT16_MIN

\* int16_t LoadWeight(float v, int precision) { return round(v * precision); }
LoadWeight(v, precision, conv) ==
  LET r == Scaled(v, precision)
  IN IF r >= INT16_MIN /\ r <= INT16_MAX THEN r
     ELSE IF conv = "wrap" THEN Wrap16(r)
     ELSE IF r > 0 THEN INT16_MAX ELSE INT16_MIN

\* what LoadDefaultNN stores from resource e
LoadedFeatureWeights(e, conv) ==
  [j \in 0 .. (N_FEATURES * N_HIDDEN - 1) |->
     LoadWeight(EmbedFloat(e, j), QUANTIZATION_PRECISION_IN, conv)]
LoadedHiddenBiases(e, conv) ==
  [j \in Lanes |->
     LoadWeight(EmbedFloat(e, OffHiddenBiases + j), QUANTIZATION_PRECISION_IN, conv)]
LoadedHiddenWeights(e, conv) ==
  [j \in 0 .. (2 * N_HIDDEN - 1) |->
     LoadWeight(EmbedFloat(e, OffHiddenWeights + j), QUANTIZATION_PRECISION_OUT, conv)]
LoadedOutputBias(e) ==
  Scaled(EmbedFloat(e, OffOutputBias), QUANTIZATION_PRECISION_OUT)

\* faulty LoadDefaultNN: returns after the diagnostic
LoadDefaultNNReturnsOnMismatch ==
  /\ ~loaded
  /\ loaded' = TRUE
  /\ IF Embed.magic # MAGIC
     THEN /\ diagnostics' = diagnostics + 1
          /\ UNCHANGED store
     ELSE /\ diagnostics' = diagnostics
          /\ DEFAULT_NN_HASH' = Embed.hash
          /\ \E conv \in ConvModes :
               /\ FEATURE_WEIGHTS' = LoadedFeatureWeights(Embed, conv)
               /\ HIDDEN_BIASES' = LoadedHiddenBiases(Embed, conv)
               /\ HIDDEN_WEIGHTS' = LoadedHiddenWeights(Embed, conv)
          /\ OUTPUT_BIAS' = LoadedOutputBias(Embed)
  /\ UNCHANGED <<Embed, ub, arch, boards, undo, trace, stmIn, xstmIn, outs>>

LoadDefaultNN ==
  /\ ~loaded
  /\ loaded' = TRUE
  /\ diagnostics' = IF Embed.magic # MAGIC THEN diagnostics + 1 ELSE diagnostics
  /\ DEFAULT_NN_HASH' = Embed.hash
  /\ \E conv \in ConvModes :
       /\ FEATURE_WEIGHTS' = LoadedFeatureWeights(Embed, conv)
       /\ HIDDEN_BIASES' = LoadedHiddenBiases(Embed, conv)
       /\ HIDDEN_WEIGHTS' = LoadedHiddenWeights(Embed, conv)
  /\ OUTPUT_BIAS' = LoadedOutputBias(Embed)
  /\ UNCHANGED <<Embed, ub, arch, boards, undo, trace, stmIn, xstmIn, outs>>

\* ------------------------------------------------------------- Board
Workers == {"w1", "w2"}

ZeroAccumulator == [i \in Lanes |-> 0]

\* PieceBB(pc, c): the squares holding c's piece of the kind pc
PieceBB(b, pc, c) == {sq \in Squares : b.squares[sq] = pc[c + 1]}
\* OccBB(BOTH): the occupied squares
OccBB(b) == {sq \in Squares : b.squares[sq] # NO_PIECE}
\* lsb: the lowest square of a non-empty bitboard
lsb(bb) == CHOOSE sq \in bb : \A other \in bb : sq <= other

\* the feature of piece pc on sq seen from perspective, whose king is on
\* kingSq: perspective-mirrored square and piece colour, king-relative
\* bucket (the half of the board the mirrored king stands in)
FeatureIdx(pc, sq, kingSq, perspective) ==
  LET mirror(x) == IF perspective = WHITE THEN x ELSE NSquares - 1 - x
      bucket == IF 2 * mirror(kingSq) >= NSquares THEN 1 ELSE 0
      oP == 2 * (pc \div 2) + ((pc + perspective) % 2)
  IN bucket * (Cardinality(Pieces) * NSquares) + oP * NSquares + mirror(sq)

\* accumulator[i] += FEATURE_WEIGHTS[feature * N_HIDDEN + i], as int16_t
AddRow(acc, feature) ==
  [i \in Lanes |-> Wrap16(acc[i] + FEATURE_WEIGHTS[feature * N_HIDDEN + i])]
\* accumulator[i] -= FEATURE_WEIGHTS[feature * N_HIDDEN + i], as int16_t
SubRow(acc, feature) ==
  [i \in Lanes |-> Wrap16(acc[i] - FEATURE_WEIGHTS[feature * N_HIDDEN + i])]
\* adding the row takes some lane out of the int16_t range
RowOverflows(acc, feature) ==
  \E i \in Lanes :
    LET v == acc[i] + FEATURE_WEIGHTS[feature * N_HIDDEN + i]
    IN v < INT16_MIN \/ v > INT16_MAX

RECURSIVE RefreshLoop(_, _, _, _, _)
\* while (occ) { sq = popAndGetLsb(&occ); ... }: r.acc is the accumulator so
\* far, r.ovf whether a partial sum has left the int16_t range
RefreshLoop(r, occ, b, kingSq, perspective) ==
  IF occ = {} THEN r
  ELSE LET sq == lsb(occ)
           feature == FeatureIdx(b.squares[sq], sq, kingSq, perspective)
       IN RefreshLoop([acc |-> AddRow(r.acc, feature),
                       ovf |-> r.ovf \/ RowOverflows(r.acc, feature)],
                      occ \ {sq}, b, kingSq, perspective)

\* RefreshAccumulator, with the ghost flag of a 16-bit overflow
Refresh(b, perspective) ==
  RefreshLoop([acc |-> HIDDEN_BIASES, ovf |-> FALSE], OccBB(b), b,
              lsb(PieceBB(b, KING, perspective)), perspective)

RefreshAccumulator(b, perspective) == Refresh(b, perspective).acc

RECURSIVE SubRows(_, _, _, _)
\* for (i = from; i < nr; i++) output -= row(removals[i])
SubRows(acc, removals, i, nr) ==
  IF i >= nr THEN acc ELSE SubRows(SubRow(acc, removals[i + 1]), removals, i + 1, nr)

RECURSIVE AddRows(_, _, _, _)
\* for (i = from; i < na; i++) output += row(additions[i])
AddRows(acc, additions, i, na) ==
  IF i >= na THEN acc ELSE AddRows(AddRow(acc, additions[i + 1]), additions, i + 1, na)

\* faulty ApplyUpdates: no fast path, the additions are applied when nr = 0
ApplyUpdatesAlwaysAdds(b, stm, updates) ==
  LET prev == b.accumulators[stm][b.ply - 1]
      output == AddRows(SubRows(prev, updates.removals, 0, updates.nr),
                        updates.additions, 0, updates.na)
  IN [b EXCEPT !.accumulators[stm][b.ply] = output]

\* faulty ApplyUpdates: only removals[0] is subtracted
ApplyUpdatesOneRemoval(b, stm, updates) ==
  LET prev == b.accumulators[stm][b.ply - 1]
      output == IF updates.nr # 0
                THEN AddRows(SubRow(prev, updates.removals[1]),
                             updates.additions, 0, updates.na)
                ELSE prev
  IN [b EXCEPT !.accumulators[stm][b.ply] = output]

\* faulty ApplyUpdates: the result is also written over the predecessor
ApplyUpdatesWritesPrev(b, stm, updates) ==
  LET prev == b.accumulators[stm][b.ply - 1]
      output == IF updates.nr # 0
                THEN AddRows(SubRows(SubRow(prev, updates.removals[1]),
                                     updates.removals, 1, updates.nr),
                             updates.additions, 0, updates.na)
                ELSE prev
  IN [b EXCEPT !.accumulators[stm][b.ply] = output,
               !.accumulators[stm][b.ply - 1] = output]

\* ApplyUpdates(board, stm, updates): the board with accumulators[stm][ply]
\* written (ply >= 1)
ApplyUpdates(b, stm, updates) ==
  LET prev == b.accumulators[stm][b.ply - 1]
      output == IF updates.nr # 0
                THEN AddRows(SubRows(SubRow(prev, updates.removals[1]),
                                     updates.removals, 1, updates.nr),
                             updates.additions, 0, updates.na)
                ELSE prev
  IN [b EXCEPT !.accumulators[stm][b.ply] = output]

\* ------------------------------------------------- the search's moves
\* consecutive Predict calls recorded per position
PredictCalls == 2

RECURSIVE Ascending(_)
\* a set of features as the ordered list of an NNUpdate
Ascending(S) == IF S = {} THEN <<>> ELSE <<lsb(S)>> \o Ascending(S \ {lsb(S)})

\* the features active on b from perspective
ActiveFeatures(b, perspective) ==
  {FeatureIdx(b.squares[sq], sq, lsb(PieceBB(b, KING, perspective)), perspective) :
     sq \in OccBB(b)}

\* the NNUpdate of the step from board b0 to board b1, for perspective
Diff(b0, b1, perspective) ==
  LET before == ActiveFeatures(b0, perspective)
      after == ActiveFeatures(b1, perspective)
  IN [nr |-> Cardinality(before \ after), removals |-> Ascending(before \ after),
      na |-> Cardinality(after \ before), additions |-> Ascending(after \ before)]

Kings == {KING[WHITE + 1], KING[BLACK + 1]}

\* the squares after each step the search can make from b: a piece steps to
\* the next square, empty or held by an enemy piece other than the king (a
\* capture); two neighbouring pieces of one colour exchange their squares (a
\* two-piece move such as castling); a pawn of the side to move appears on
\* an empty square; or nothing changes (a null move)
MoveTargets(b) ==
  LET sq == b.squares
      near(f, t) == f - t = 1 \/ t - f = 1
  IN {[sq EXCEPT ![m[1]] = NO_PIECE, ![m[2]] = sq[m[1]]] :
        m \in {m \in Squares \X Squares :
                 /\ near(m[1], m[2]) /\ sq[m[1]] # NO_PIECE /\ sq[m[2]] \notin Kings
                 /\ (sq[m[2]] = NO_PIECE \/ sq[m[2]] % 2 # sq[m[1]] % 2)}}
     \cup {[sq EXCEPT ![m[1]] = sq[m[2]], ![m[2]] = sq[m[1]]] :
             m \in {m \in Squares \X Squares :
                      /\ m[2] = m[1] + 1 /\ sq[m[1]] # NO_PIECE /\ sq[m[2]] # NO_PIECE
                      /\ sq[m[1]] # sq[m[2]] /\ sq[m[1]] % 2 = sq[m[2]] % 2}}
     \cup {[sq EXCEPT ![t] = PAWN[b.stm + 1]] : t \in {t \in Squares : sq[t] = NO_PIECE}}
     \cup {sq}

\* the positions a game is set up from: squares 0 .. NSquares-1
StartPositions ==
  {[sq \in Squares |->
      CASE sq = 0 -> KING[WHITE + 1]
        [] sq = 1 -> PAWN[WHITE + 1]
        [] sq = NSquares - 2 -> PAWN[BLACK + 1]
        [] sq = NSquares - 1 -> KING[BLACK + 1]
        [] OTHER -> NO_PIECE],
   [sq \in Squares |->
      CASE sq = 1 -> KING[BLACK + 1]
        [] sq = 2 -> PAWN[BLACK + 1]
        [] sq = NSquares - 2 -> PAWN[WHITE + 1]
        [] sq = NSquares - 1 -> KING[WHITE + 1]
        [] OTHER -> NO_PIECE]}

NoUpdate == [nr |-> 0, removals |-> <<>>, na |-> 0, additions |-> <<>>]

EmptyBoard ==
  [squares |-> [sq \in Squares |-> NO_PIECE], stm |-> WHITE, xstm |-> BLACK,
   ply |-> 0,
   accumulators |-> [c \in Colors |-> [q \in 0 .. MaxPly |-> ZeroAccumulator]]]

NoTrace ==
  [op |-> "none", updates |-> <<NoUpdate, NoUpdate>>, scores |-> <<>>,
   ovf16 |-> FALSE, ovf32 |-> FALSE, deepest |-> 0, retried |-> FALSE,
   lossy |-> [c \in Colors |-> [q \in 0 .. MaxPly |-> FALSE]],
   computed |-> [c \in Colors |-> [q \in 0 .. MaxPly |-> ZeroAccumulator]]]

\* the board is set up and both accumulators of ply 0 are refreshed
SetPosition(w) ==
  /\ loaded
  /\ trace[w].op = "none"
  /\ \E start \in StartPositions :
       LET b0 == [boards[w] EXCEPT !.squares = start]
           aw == RefreshAccumulator(b0, WHITE)
           ab == RefreshAccumulator(b0, BLACK)
       IN /\ boards' = [boards EXCEPT ![w] =
                          [b0 EXCEPT !.accumulators[WHITE][0] = aw,
                                     !.accumulators[BLACK][0] = ab]]
          /\ trace' = [trace EXCEPT ![w].op = "set",
                                    ![w].computed[WHITE][0] = aw,
                                    ![w].computed[BLACK][0] = ab]
  /\ UNCHANGED <<Embed, ub, arch, store, loaded, diagnostics, undo, stmIn, xstmIn, outs>>

\* a move is made: ply + 1, then ApplyUpdates once per perspective
MakeMoveTo(w, maxPly) ==
  /\ loaded
  /\ trace[w].op # "none"
  /\ boards[w].ply < maxPly
  /\ \E squares \in MoveTargets(boards[w]) :
       LET b == boards[w]
           moved == [b EXCEPT !.squares = squares, !.ply = b.ply + 1,
                              !.stm = b.xstm, !.xstm = b.stm]
           uw == Diff(b, moved, WHITE)
           ub2 == Diff(b, moved, BLACK)
           after == ApplyUpdates(ApplyUpdates(moved, WHITE, uw), BLACK, ub2)
           drops(u) == u.nr = 0 /\ u.na > 0
       IN /\ uw.nr <= 2 /\ uw.na <= 2 /\ ub2.nr <= 2 /\ ub2.na <= 2
          /\ boards' = [boards EXCEPT ![w] = after]
          /\ undo' = [undo EXCEPT ![w] = Append(undo[w], b.squares)]
          /\ trace' = [trace EXCEPT
               ![w].op = "make", ![w].updates = <<uw, ub2>>, ![w].scores = <<>>,
               ![w].ovf16 = FALSE, ![w].ovf32 = FALSE,
               ![w].deepest = IF moved.ply > @ THEN moved.ply ELSE @,
               ![w].retried = @ \/ (/\ moved.ply <= trace[w].deepest
                                    /\ after.accumulators # b.accumulators),
               ![w].lossy[WHITE][moved.ply] =
                  trace[w].lossy[WHITE][b.ply] \/ drops(uw),
               ![w].lossy[BLACK][moved.ply] =
                  trace[w].lossy[BLACK][b.ply] \/ drops(ub2),
               ![w].computed[WHITE][moved.ply] = after.accumulators[WHITE][moved.ply],
               ![w].computed[BLACK][moved.ply] = after.accumulators[BLACK][moved.ply]]
  /\ UNCHANGED <<Embed, ub, arch, store, loaded, diagnostics, stmIn, xstmIn, outs>>

\* the move is taken back: ply - 1, the squares restored, no accumulator touched
UnmakeMove(w) ==
  /\ loaded
  /\ boards[w].ply > 0
  /\ LET b == boards[w]
     IN boards' = [boards EXCEPT ![w] =
                     [b EXCEPT !.squares = undo[w][Len(undo[w])], !.ply = b.ply - 1,
                               !.stm = b.xstm, !.xstm = b.stm]]
  /\ undo' = [undo EXCEPT ![w] = SubSeq(undo[w], 1, Len(undo[w]) - 1)]
  /\ trace' = [trace EXCEPT ![w].op = "unmake",
                            ![w].updates = <<NoUpdate, NoUpdate>>,
                            ![w].scores = <<>>,
                            ![w].ovf16 = FALSE, ![w].ovf32 = FALSE]
  /\ UNCHANGED <<Embed, ub, arch, store, loaded, diagnostics, stmIn, xstmIn, outs>>

\* faulty Predict: refreshes the board's own accumulators of the current ply
PredictIntoBoard(w) ==
  /\ loaded
  /\ trace[w].op # "none"
  /\ Len(trace[w].scores) < PredictCalls
  /\ LET b == boards[w]
         stm == Refresh(b, b.stm)
         xstm == Refresh(b, b.xstm)
     IN /\ trace' = [trace EXCEPT
             ![w].op = "predict",
             ![w].scores = Append(trace[w].scores, OutputLayer(stm.acc, xstm.acc)),
             ![w].ovf16 = stm.ovf \/ xstm.ovf,
             ![w].ovf32 = ScalarTotal(stm.acc, xstm.acc).ovf]
        /\ boards' = [boards EXCEPT ![w].accumulators[b.stm][b.ply] = stm.acc,
                                    ![w].accumulators[b.xstm][b.ply] = xstm.acc]
  /\ UNCHANGED <<Embed, ub, arch, store, loaded, diagnostics, undo, stmIn, xstmIn, outs>>

\* faulty Predict: the refresh accumulates into HIDDEN_BIASES
PredictRefreshesBiases(w) ==
  /\ loaded
  /\ trace[w].op # "none"
  /\ Len(trace[w].scores) < PredictCalls
  /\ LET b == boards[w]
         stm == Refresh(b, b.stm)
         xstm == Refresh(b, b.xstm)
     IN /\ trace' = [trace EXCEPT
             ![w].op = "predict",
             ![w].scores = Append(trace[w].scores, OutputLayer(stm.acc, xstm.acc)),
             ![w].ovf16 = stm.ovf \/ xstm.ovf,
             ![w].ovf32 = ScalarTotal(stm.acc, xstm.acc).ovf]
        /\ HIDDEN_BIASES' = xstm.acc
  /\ UNCHANGED <<Embed, ub, arch, DEFAULT_NN_HASH, FEATURE_WEIGHTS, HIDDEN_WEIGHTS,
                 OUTPUT_BIAS, loaded, diagnostics, boards, undo, stmIn, xstmIn, outs>>

\* Predict(board): two local accumulators are refreshed and scored
Predict(w) ==
  /\ loaded
  /\ trace[w].op # "none"
  /\ Len(trace[w].scores) < PredictCalls
  /\ LET b == boards[w]
         stm == Refresh(b, b.stm)
         xstm == Refresh(b, b.xstm)
     IN trace' = [trace EXCEPT
          ![w].op = "predict",
          ![w].scores = Append(trace[w].scores, OutputLayer(stm.acc, xstm.acc)),
          ![w].ovf16 = stm.ovf \/ xstm.ovf,
          ![w].ovf32 = ScalarTotal(stm.acc, xstm.acc).ovf]
  /\ UNCHANGED <<Embed, ub, arch, store, loaded, diagnostics, boards, undo,
                 stmIn, xstmIn, outs>>

MakeMove(w) == MakeMoveTo(w, MaxPly)

\* --------------------------------------------------- the program, one worker

Resources ==
  {[magic |-> MAGIC, hash |-> <<1, 2, 3, 4, 5, 6, 7, 8>>,
    fw |-> "FwSmall", hw |-> "HwSmall", shift |-> 0],
   [magic |-> <<66, 82, 75, 83>>, hash |-> <<0, 0, 0, 0, 0, 0, 0, 128>>,
    fw |-> "FwBig", hw |-> "HwBig", shift |-> 3]}

NoOuts == [a \in Archs |-> [trap |-> FALSE, value |-> 0, done |-> FALSE]]

InitProgram ==
  /\ DEFAULT_NN_HASH = NO_HASH
  /\ FEATURE_WEIGHTS = [j \in 0 .. (N_FEATURES * N_HIDDEN - 1) |-> 0]
  /\ HIDDEN_BIASES = [j \in Lanes |-> 0]
  /\ HIDDEN_WEIGHTS = [j \in 0 .. (2 * N_HIDDEN - 1) |-> 0]
  /\ OUTPUT_BIAS = 0
  /\ loaded = FALSE
  /\ diagnostics = 0
  /\ boards = [w \in Workers |-> EmptyBoard]
  /\ undo = [w \in Workers |-> <<>>]
  /\ trace = [w \in Workers |-> NoTrace]
  /\ stmIn = ZeroAccumulator
  /\ xstmIn = ZeroAccumulator
  /\ outs = NoOuts

Init == Embed \in Resources /\ arch = "scalar" /\ ub = "wrap" /\ InitProgram

Next ==
  \/ LoadDefaultNN
  \/ SetPosition("w1")
  \/ MakeMove("w1")
  \/ UnmakeMove("w1")

Spec == Init /\ [][Next]_vars

\* the board of worker w as it stood at ply q <= ply
BoardAt(w, q) ==
  [boards[w] EXCEPT !.squares = (undo[w] \o <<boards[w].squares>>)[q + 1]]

PositionSet(w) == trace[w].op # "none"

C2_NoRemovalsCopiesPrevious ==
  \A c \in Colors :
    (trace["w1"].op = "make" /\ trace["w1"].updates[c + 1].nr = 0)
      => boards["w1"].accumulators[c][boards["w1"].ply]
           = boards["w1"].accumulators[c][boards["w1"].ply - 1]

\* C2's case: nr = 0 with a non-empty addition list whose rows, had they been
\* added, would have changed the accumulator
C2_Witness ==
  /\ trace["w1"].op = "make"
  /\ \E c \in Colors :
       /\ trace["w1"].updates[c + 1].nr = 0
       /\ trace["w1"].updates[c + 1].na > 0
       /\ boards["w1"].accumulators[c][boards["w1"].ply]
            # RefreshAccumulator(boards["w1"], c)

\* a make-move step at ply p writes accumulators[s][p] only, an unmake step
\* writes none
C10_Frame ==
  [][\A c \in Colors : \A q \in 0 .. MaxPly :
       ((/\ trace'["w1"].op = "make"
         /\ boards'["w1"].ply = boards["w1"].ply + 1
         /\ q # boards'["w1"].ply)
        \/ (/\ trace'["w1"].op = "unmake"
            /\ boards'["w1"].ply = boards["w1"].ply - 1))
         => boards'["w1"].accumulators[c][q] = boards["w1"].accumulators[c][q]]_vars

\* every accumulator at or below the current ply is the one computed when
\* its ply was entered
C10_HistoryKept ==
  \A c \in Colors : \A q \in 0 .. MaxPly :
    (PositionSet("w1") /\ q <= boards["w1"].ply)
      => boards["w1"].accumulators[c][q] = trace["w1"].computed[c][q]

\* C10: ApplyUpdates at ply p writes only accumulators[s][p], unmake writes no
\* accumulator, and under every interleaving of make and unmake steps the
\* accumulators up to the current ply stay the ones computed for the boards
\* of the current line.
C10_FrameAndBacktracking == C10_Frame /\ []C10_HistoryKept

\* C10's case: a different move was made at a ply used before, over the
\* accumulator the earlier move left there, and has been taken back
C10_Witness ==
  /\ trace["w1"].op = "unmake"
  /\ trace["w1"].retried
  /\ \E c \in Colors :
       boards["w1"].accumulators[c][boards["w1"].ply + 1]
         # boards["w1"].accumulators[c][boards["w1"].ply]

\* ------------------------------------------- the OutputLayer kernels alone
\* lane values and weights the kernels are run on
LaneMixed == <<0, 1, -1, 32767, -32768, 100, -5>>
LaneHigh == <<32767, 32767, 32767, 32766, 32767>>
WeightMixed == <<1, -1, 32767, -32768, 512, 0, -300>>
WeightHigh == <<32767, 32767, 32767, 32767, 32766>>
BiasValues == {0, 5, -7, 8191, 67108863, 67108864, -67108865}
InputShifts == {0, 1, 2}

\* the array of n entries that repeats table from shift on
Pattern(table, shift, n) == [i \in 0 .. (n - 1) |-> table[((i + shift) % Len(table)) + 1]]

InitKernels ==
  /\ Embed \in {r \in Resources : r.magic = MAGIC}
  /\ arch = "scalar"
  /\ ub \in UBModes
  /\ DEFAULT_NN_HASH = NO_HASH
  /\ FEATURE_WEIGHTS = [j \in 0 .. (N_FEATURES * N_HIDDEN - 1) |-> 0]
  /\ HIDDEN_BIASES = [j \in Lanes |-> 0]
  /\ \E t \in {WeightMixed, WeightHigh} : \E sh \in InputShifts :
       HIDDEN_WEIGHTS = Pattern(t, sh, 2 * N_HIDDEN)
  /\ OUTPUT_BIAS \in BiasValues
  /\ loaded = TRUE
  /\ diagnostics = 0
  /\ boards = [w \in Workers |-> EmptyBoard]
  /\ undo = [w \in Workers |-> <<>>]
  /\ trace = [w \in Workers |-> NoTrace]
  /\ \E t \in {LaneMixed, LaneHigh} : \E sh \in InputShifts :
       stmIn = Pattern(t, sh, N_HIDDEN)
  /\ \E t \in {LaneMixed, LaneHigh} : \E sh \in InputShifts :
       xstmIn = Pattern(t, sh + 1, N_HIDDEN)
  /\ outs = NoOuts

Ran(r) == [trap |-> r.trap, value |-> r.value, done |-> TRUE]

RunAVX2 ==
  /\ ~outs["avx2"].done
  /\ outs' = [outs EXCEPT !["avx2"] = Ran(OutputLayerAVX2(stmIn, xstmIn, ub))]
  /\ UNCHANGED <<Embed, ub, arch, store, loaded, diagnostics, boards, undo, trace,
                 stmIn, xstmIn>>

RunSSE ==
  /\ ~outs["sse"].done
  /\ outs' = [outs EXCEPT !["sse"] = Ran(OutputLayerSSE(stmIn, xstmIn, ub))]
  /\ UNCHANGED <<Embed, ub, arch, store, loaded, diagnostics, boards, undo, trace,
                 stmIn, xstmIn>>

RunScalar ==
  /\ ~outs["scalar"].done
  /\ outs' = [outs EXCEPT !["scalar"] = Ran(OutputLayerScalar(stmIn, xstmIn, ub))]
  /\ UNCHANGED <<Embed, ub, arch, store, loaded, diagnostics, boards, undo, trace,
                 stmIn, xstmIn>>

NextKernels == RunAVX2 \/ RunSSE \/ RunScalar

SpecKernels == InitKernels /\ [][NextKernels]_vars

\* the score as the mathematical integer: T = 16384 * q + r, summed term by
\* term so that no intermediate value needs more than 32 bits
RECURSIVE ExactParts(_, _, _)
ExactParts(stm, xstm, i) ==
  IF i = N_HIDDEN
  THEN [q |-> OUTPUT_BIAS \div QUANTIZATION_PRECISION_OUT,
        r |-> (OUTPUT_BIAS % QUANTIZATION_PRECISION_OUT) * QUANTIZATION_PRECISION_IN]
  ELSE LET rest == ExactParts(stm, xstm, i + 1)
           m == QUANTIZATION_PRECISION_IN * QUANTIZATION_PRECISION_OUT
           t0 == Relu(stm[i]) * HIDDEN_WEIGHTS[i]
           t1 == Relu(xstm[i]) * HIDDEN_WEIGHTS[i + N_HIDDEN]
       IN [q |-> rest.q + (t0 \div m) + (t1 \div m),
           r |-> rest.r + (t0 % m) + (t1 % m)]

\* T / (32 * 512), truncated toward zero, T the mathematical total
ExactScore(stm, xstm) ==
  LET p == ExactParts(stm, xstm, 0)
      m == QUANTIZATION_PRECISION_IN * QUANTIZATION_PRECISION_OUT
      q == p.q + (p.r \div m)
  IN IF q < 0 /\ p.r % m # 0 THEN q + 1 ELSE q

\* C3 as stated: on the same accumulators and WeightStore the AVX2, the SSE
\* and the scalar OutputLayer return the same integer.
C3_KernelsAgree ==
  (\A a \in Archs : outs[a].done)
    => /\ \A a \in Archs : ~outs[a].trap
       /\ outs["avx2"].value = outs["scalar"].value
       /\ outs["sse"].value = outs["scalar"].value

\* C4 as stated: for every input the scalar OutputLayer returns T / (32 * 512),
\* truncated toward zero, T the mathematical total.
C4_ScalarReturnsExactQuotient ==
  outs["scalar"].done
    => /\ ~outs["scalar"].trap
       /\ outs["scalar"].value = ExactScore(stmIn, xstmIn)

\* ------------------------------------------------------ the loader alone
MagicVariants ==
  {MAGIC, <<67, 82, 75, 82>>, <<66, 83, 75, 82>>, <<66, 82, 76, 82>>,
   <<66, 82, 75, 83>>, <<0, 0, 0, 0>>}
HashVariants == {<<1, 2, 3, 4, 5, 6, 7, 8>>, <<0, 0, 0, 0, 0, 0, 0, 128>>}

LoaderResources ==
  [magic : MagicVariants, hash : HashVariants, fw : {"FwSmall", "FwBig", "FwEdge"},
   hw : {"HwSmall", "HwBig", "HwEdge"}, shift : {0, 1}]

InitLoader == Embed \in LoaderResources /\ arch = "scalar" /\ ub = "wrap" /\ InitProgram

SpecLoader == InitLoader /\ [][LoadDefaultNN]_vars

\* resource e with the standard magic in front of the same hash and payload
Standard(e) == [e EXCEPT !.magic = MAGIC]

\* C6: LoadDefaultNN prints one line exactly when a magic byte differs, and
\* in both cases records the hash and stores the values the same payload
\* gives under the standard magic; it always runs to completion.
C6_MagicMismatchNotFatal ==
  /\ ~loaded => (ENABLED LoadDefaultNN /\ diagnostics = 0)
  /\ loaded =>
       /\ diagnostics = IF \E i \in 1 .. 4 : Embed.magic[i] # MAGIC[i] THEN 1 ELSE 0
       /\ DEFAULT_NN_HASH = Embed.hash
       /\ OUTPUT_BIAS = LoadedOutputBias(Standard(Embed))
       /\ \E conv \in ConvModes :
            /\ FEATURE_WEIGHTS = LoadedFeatureWeights(Standard(Embed), conv)
            /\ HIDDEN_BIASES = LoadedHiddenBiases(Standard(Embed), conv)
            /\ HIDDEN_WEIGHTS = LoadedHiddenWeights(Standard(Embed), conv)

\* C6's case: a resource whose magic differs has been loaded, and the store
\* holds its (non-zero) weights and its hash
C6_Witness ==
  /\ loaded
  /\ Embed.magic # MAGIC
  /\ diagnostics = 1
  /\ DEFAULT_NN_HASH # NO_HASH
  /\ OUTPUT_BIAS # 0
  /\ \E j \in DOMAIN FEATURE_WEIGHTS : FEATURE_WEIGHTS[j] # 0
  /\ \E j \in DOMAIN HIDDEN_WEIGHTS : HIDDEN_WEIGHTS[j] # 0

\* |q / precision - num / FloatDen| <= 1 / (2 * precision)
WithinHalfStep(q, num, precision) ==
  LET d == q * FloatDen - num * precision
  IN 2 * (IF d < 0 THEN -d ELSE d) <= FloatDen

\* round(x * precision) is a value of int16_t
Representable(num, precision) ==
  Scaled(num, precision) >= INT16_MIN /\ Scaled(num, precision) <= INT16_MAX

\* C9 as stated: every stored value q of every weight x of the resource has
\* |q / P - x| <= 1 / (2 P).
C9_QuantizationBound ==
  loaded =>
    /\ \A j \in DOMAIN FEATURE_WEIGHTS :
         WithinHalfStep(FEATURE_WEIGHTS[j], EmbedFloat(Embed, j), QUANTIZATION_PRECISION_IN)
    /\ \A j \in Lanes :
         WithinHalfStep(HIDDEN_BIASES[j], EmbedFloat(Embed, OffHiddenBiases + j),
                        QUANTIZATION_PRECISION_IN)
    /\ \A j \in DOMAIN HIDDEN_WEIGHTS :
         WithinHalfStep(HIDDEN_WEIGHTS[j], EmbedFloat(Embed, OffHiddenWeights + j),
                        QUANTIZATION_PRECISION_OUT)
    /\ WithinHalfStep(OUTPUT_BIAS, EmbedFloat(Embed, OffOutputBias),
                      QUANTIZATION_PRECISION_OUT)

\* C9 as amended: the bound holds for every weight x whose round(x * P) is a
\* value of the storage type.
C9_QuantizationBoundWhenRepresentable ==
  loaded =>
    /\ \A j \in DOMAIN FEATURE_WEIGHTS :
         Representable(EmbedFloat(Embed, j), QUANTIZATION_PRECISION_IN) =>
           WithinHalfStep(FEATURE_WEIGHTS[j], EmbedFloat(Embed, j),
                          QUANTIZATION_PRECISION_IN)
    /\ \A j \in Lanes :
         Representable(EmbedFloat(Embed, OffHiddenBiases + j), QUANTIZATION_PRECISION_IN) =>
           WithinHalfStep(HIDDEN_BIASES[j], EmbedFloat(Embed, OffHiddenBiases + j),
                          QUANTIZATION_PRECISION_IN)
    /\ \A j \in DOMAIN HIDDEN_WEIGHTS :
         Representable(EmbedFloat(Embed, OffHiddenWeights + j), QUANTIZATION_PRECISION_OUT) =>
           WithinHalfStep(HIDDEN_WEIGHTS[j], EmbedFloat(Embed, OffHiddenWeights + j),
                          QUANTIZATION_PRECISION_OUT)
    /\ WithinHalfStep(OUTPUT_BIAS, EmbedFloat(Embed, OffOutputBias),
                      QUANTIZATION_PRECISION_OUT)

\* C9's case: a loaded resource with a representable weight whose stored
\* value is exactly half a step from it (the bound is met), beside a weight
\* that no int16_t value is within half a step of
C9_Witness ==
  /\ loaded
  /\ \E j \in DOMAIN FEATURE_WEIGHTS :
       LET num == EmbedFloat(Embed, j)
       IN /\ Representable(num, QUANTIZATION_PRECISION_IN)
          /\ 2 * (FEATURE_WEIGHTS[j] * FloatDen - num * QUANTIZATION_PRECISION_IN) = FloatDen
  /\ \E j \in DOMAIN HIDDEN_WEIGHTS :
       LET num == EmbedFloat(Embed, OffHiddenWeights + j)
       IN /\ Representable(num, QUANTIZATION_PRECISION_OUT)
          /\ 2 * (HIDDEN_WEIGHTS[j] * FloatDen - num * QUANTIZATION_PRECISION_OUT) = FloatDen
  /\ \E j \in DOMAIN HIDDEN_WEIGHTS :
       ~Representable(EmbedFloat(Embed, OffHiddenWeights + j), QUANTIZATION_PRECISION_OUT)

\* ------------------------------------------- evaluation, one worker
\* plies the evaluated positions are taken from
EvalPly == 1

InitEval == Embed \in Resources /\ arch \in Archs /\ ub \in UBModes /\ InitProgram

NextEval ==
  \/ LoadDefaultNN
  \/ SetPosition("w1")
  \/ MakeMoveTo("w1", EvalPly)
  \/ Predict("w1")

SpecEval == InitEval /\ [][NextEval]_vars

\* C5 as stated: whenever Predict has run on a board (never more than 32
\* occupied squares) with a store LoadDefaultNN produced, no accumulator lane
\* left the 16-bit range in RefreshAccumulator and the running total of
\* OutputLayer did not leave the 32-bit range.
C5_NoOverflowInPredict ==
  \A w \in Workers :
    trace[w].op = "predict" => ~trace[w].ovf16 /\ ~trace[w].ovf32

\* C8: a Predict call changes nothing of the board (squares, side to move,
\* ply, ply-indexed accumulators) nor of the undo history, and the score of a
\* call that directly follows another on the same board equals the first.
C8_PredictIdempotent ==
  [][\A w \in Workers :
       Len(trace'[w].scores) > Len(trace[w].scores) =>
         /\ boards' = boards
         /\ undo' = undo
         /\ store' = store
         /\ Len(trace[w].scores) >= 1 =>
              trace'[w].scores[Len(trace'[w].scores)] =
                trace[w].scores[Len(trace[w].scores)]]_vars

\* C8's case: Predict has returned twice in a row on a position reached by a
\* move, with a score that is not zero
C8_Witness ==
  /\ trace["w1"].op = "predict"
  /\ Len(trace["w1"].scores) = 2
  /\ boards["w1"].ply = 1
  /\ ~trace["w1"].scores[2].trap
  /\ trace["w1"].scores[2].value # 0
  /\ boards["w1"].accumulators[WHITE][1] # ZeroAccumulator

\* ------------------------------------------------------ several workers
\* plies each worker searches
WorkerPly == 1

InitWorkers == Embed \in Resources /\ arch = "avx2" /\ ub = "wrap" /\ InitProgram

NextWorkers ==
  \/ LoadDefaultNN
  \/ \E w \in Workers :
       \/ SetPosition(w)
       \/ MakeMoveTo(w, WorkerPly)
       \/ Predict(w)

SpecWorkers == InitWorkers /\ [][NextWorkers]_vars

\* C7: once LoadDefaultNN has returned, no step of any worker changes
\* FEATURE_WEIGHTS, HIDDEN_BIASES, HIDDEN_WEIGHTS, OUTPUT_BIAS or
\* DEFAULT_NN_HASH; the only step that changes any of them is the load.
C7_WeightStoreImmutable ==
  [][/\ loaded => store' = store
     /\ store' # store => ~loaded /\ loaded']_vars

\* C7's case: after the load both workers have moved on their own boards and
\* have evaluated them, and the store holds the loaded weights
C7_Witness ==
  /\ loaded
  /\ \A w \in Workers :
       /\ trace[w].op = "predict"
       /\ boards[w].ply = 1
       /\ Len(trace[w].scores) = PredictCalls
  /\ boards["w1"].squares # boards["w2"].squares
  /\ \E j \in DOMAIN FEATURE_WEIGHTS : FEATURE_WEIGHTS[j] # 0
  /\ DEFAULT_NN_HASH # NO_HASH

====
